---- MODULE Spec2Model ----
(***************************************************************************)
(* State-machine model of the namespace demos of linux-isolation-learning: *)
(*   src/src/pid_namespace.py      one clone(CLONE_NEWPID) child           *)
(*   src/src/pid_two.py            two clone(CLONE_NEWPID) children        *)
(*   src/src/net_veth_example.py   veth pair between host and a netns      *)
(*   src/src/net_internet_access.py  setup_nat_network                     *)
(*   src/src/net_namespace_basic.py  create_and_inspect_netns              *)
(*   src/src/net_namespace_unshare.py  unshare(CLONE_NEWNET)               *)
(*   src/archive/src/pid_unshare.py  unshare(CLONE_NEWPID), fork, waitpid  *)
(*   src/archive/src/pid_namespace.py  double_fork_demo                    *)
(* One run executes one of the scripts; `prog` says which.                 *)
(***************************************************************************)
EXTENDS Integers, Sequences, FiniteSets, TLC

VARIABLES
    prog,         \* the script (or function) this run executes
    root,         \* os.geteuid() == 0
    pc,           \* position of the controlling process
    ret,          \* exit code of the run; Running until it ends
    stderr,       \* error lines printed so far (tags)
    childPid,     \* child_pid_01 / child_pid_02: 0 unset, -1 failed, else pid
    proc,         \* kernel view of each cloned child
    retVal,       \* value child_fn's callback handed back to the clone frame
    exitStatus,   \* exit status of each terminated child
    waited,       \* number of os.waitpid calls main completed per child
    stack,        \* stack_01 / stack_02 buffers: "unalloc", "owned", "released"
    stackClones,  \* number of clone calls each stack buffer was handed to
    kernel,       \* network objects of the host (namespace, veth ends, links)
    results,      \* return values of the run_cmd calls of setup, in order
    nsBound,      \* main's local `namespace` is assigned
    cleanupLog,   \* return value of run_cmd in each cleanup call, in order
    ticks,        \* iterations of the idle loop so far
    errno,        \* ctypes' private errno copy, read by ctypes.get_errno()
    failErrno,    \* per clone call: the errno it failed with, "none" otherwise
    reported,     \* errnos named in the "clone failed: ..." lines, in order
    unshareCalls  \* number of unshare calls issued

pidVars == <<childPid, proc, retVal, exitStatus, waited, stack, stackClones>>
netVars == <<kernel, results, nsBound, cleanupLog, ticks>>
auxVars == <<errno, failErrno, reported, unshareCalls>>
vars == <<prog, root, pc, ret, stderr, pidVars, netVars, auxVars>>

\* ---------------------------------------------------------------- bounds
MaxTicks == 2

\* ------------------------------------------------------------- constants
Slots == {1, 2}
Pid(i) == 100 + i
CloneFailed == 0 - 1
Unset == 0
Running == 0 - 1

PidProgs == {"pid_namespace", "pid_two"}
NetProgs == {"net_veth_example", "setup_nat_network"}
ForkProgs == {"pid_unshare", "double_fork_demo"}
Progs == PidProgs \cup NetProgs \cup ForkProgs
            \cup {"net_namespace_basic", "net_namespace_unshare"}

\* ------------------------------------------------- the cloned children
\* libc.clone: CLONE_NEWPID needs privilege, so an unprivileged call fails;
\* a privileged call may still fail (ENOMEM, ENOSPC nesting limit).
CloneOutcomes == IF root THEN {TRUE, FALSE} ELSE {FALSE}

\* errno of a failed clone: EPERM without privilege, a resource error with it
CloneErrnos == IF root THEN {"ENOMEM", "ENOSPC"} ELSE {"EPERM"}

\* libc.clone(child_callback, stack_top_i, flags, None) storing child_pid_i.
\* libc is loaded with use_errno=True: a failing call leaves its errno in
\* ctypes' private copy, a successful call leaves the copy as it was.
clone(i, ok) ==
    /\ stack[i] = "owned"
    /\ stackClones' = [stackClones EXCEPT ![i] = @ + 1]
    /\ IF ok
       THEN /\ childPid' = [childPid EXCEPT ![i] = Pid(i)]
            /\ proc' = [proc EXCEPT ![i] = "entry"]
            /\ UNCHANGED <<errno, failErrno>>
       ELSE /\ childPid' = [childPid EXCEPT ![i] = CloneFailed]
            /\ proc' = proc
            /\ \E e \in CloneErrnos :
                  /\ errno' = e
                  /\ failErrno' = [failErrno EXCEPT ![i] = e]

\* errno = ctypes.get_errno(); print(f"clone failed: {os.strerror(errno)}")
ReportCloneFailed ==
    /\ stderr' = Append(stderr, "clone failed")
    /\ reported' = Append(reported, errno)

\* child_fn: prints, then os.execlp.  On success the image is replaced.  On
\* failure os.execlp raises OSError inside the ctypes callback; ctypes prints
\* and ignores it, and the callback returns an unspecified int to the clone
\* frame (0 or nonzero in its low byte), so `return 1` is never what decides.
child_fn(i) ==
    /\ proc[i] = "entry"
    /\ \/ /\ proc' = [proc EXCEPT ![i] = "image"]
          /\ retVal' = retVal
       \/ \E v \in {0, 1} :
            /\ proc' = [proc EXCEPT ![i] = "returned"]
            /\ retVal' = [retVal EXCEPT ![i] = v]
    /\ UNCHANGED <<prog, root, pc, ret, stderr, childPid, exitStatus, waited,
                   stack, stackClones, netVars, auxVars>>

\* glibc's clone frame: the value fn returned becomes the child's exit status.
CloneFrameExit(i) ==
    /\ proc[i] = "returned"
    /\ proc' = [proc EXCEPT ![i] = "zombie"]
    /\ exitStatus' = [exitStatus EXCEPT ![i] = retVal[i]]
    /\ UNCHANGED <<prog, root, pc, ret, stderr, childPid, retVal, waited,
                   stack, stackClones, netVars, auxVars>>

\* the exec'ed program (ps aux / sleep 100) terminates
ImageExit(i) ==
    /\ proc[i] = "image"
    /\ \E s \in {0, 1} :
         /\ proc' = [proc EXCEPT ![i] = "zombie"]
         /\ exitStatus' = [exitStatus EXCEPT ![i] = s]
    /\ UNCHANGED <<prog, root, pc, ret, stderr, childPid, retVal, waited,
                   stack, stackClones, netVars, auxVars>>

\* once the parent is gone the host's init adopts and reaps its zombies
HostInitReaps(i) ==
    /\ ret # Running
    /\ proc[i] = "zombie"
    /\ proc' = [proc EXCEPT ![i] = "reaped"]
    /\ UNCHANGED <<prog, root, pc, ret, stderr, childPid, retVal, exitStatus,
                   waited, stack, stackClones, netVars, auxVars>>

\* os.waitpid(child_pid_i, 0): blocks until the child has terminated
waitpid(i) ==
    /\ proc[i] = "zombie"
    /\ proc' = [proc EXCEPT ![i] = "reaped"]
    /\ waited' = [waited EXCEPT ![i] = @ + 1]

\* main returns: its locals, the stack buffers among them, are dropped
Return(code) ==
    /\ ret' = code
    /\ pc' = "done"
    /\ stack' = [i \in Slots |-> IF stack[i] = "owned" THEN "released" ELSE stack[i]]

\* ------------------------------------------------------ pid_namespace.py
PidNs_Alloc ==
    /\ prog = "pid_namespace" /\ pc = "start"
    /\ stack' = [stack EXCEPT ![1] = "owned"]
    /\ pc' = "clone1"
    /\ UNCHANGED <<prog, root, ret, stderr, childPid, proc, retVal, exitStatus,
                   waited, stackClones, netVars, auxVars>>

PidNs_Clone ==
    /\ prog = "pid_namespace" /\ pc = "clone1"
    /\ \E ok \in CloneOutcomes : clone(1, ok)
    /\ pc' = "check1"
    /\ UNCHANGED <<prog, root, ret, stderr, retVal, exitStatus, waited, stack, netVars, reported, unshareCalls>>

PidNs_Check ==
    /\ prog = "pid_namespace" /\ pc = "check1"
    /\ IF childPid[1] = CloneFailed
       THEN /\ ReportCloneFailed
            /\ Return(1)
       ELSE /\ pc' = "wait1"
            /\ UNCHANGED <<ret, stderr, stack, reported>>
    /\ UNCHANGED <<prog, root, childPid, proc, retVal, exitStatus, waited,
                   stackClones, netVars, errno, failErrno, unshareCalls>>

PidNs_Wait ==
    /\ prog = "pid_namespace" /\ pc = "wait1"
    /\ waitpid(1)
    /\ Return(0)
    /\ UNCHANGED <<prog, root, stderr, childPid, retVal, exitStatus, stackClones, netVars, auxVars>>

\* ------------------------------------------------------------ pid_two.py
PidTwo_Alloc ==
    /\ prog = "pid_two" /\ pc = "start"
    /\ stack' = [i \in Slots |-> "owned"]
    /\ pc' = "clone1"
    /\ UNCHANGED <<prog, root, ret, stderr, childPid, proc, retVal, exitStatus,
                   waited, stackClones, netVars, auxVars>>

PidTwo_Clone1 ==
    /\ prog = "pid_two" /\ pc = "clone1"
    /\ \E ok \in CloneOutcomes : clone(1, ok)
    /\ pc' = "clone2"
    /\ UNCHANGED <<prog, root, ret, stderr, retVal, exitStatus, waited, stack, netVars, reported, unshareCalls>>

PidTwo_Clone2 ==
    /\ prog = "pid_two" /\ pc = "clone2"
    /\ \E ok \in CloneOutcomes : clone(2, ok)
    /\ pc' = "check1"
    /\ UNCHANGED <<prog, root, ret, stderr, retVal, exitStatus, waited, stack, netVars, reported, unshareCalls>>

PidTwo_Check1 ==
    /\ prog = "pid_two" /\ pc = "check1"
    /\ IF childPid[1] = CloneFailed
       THEN /\ ReportCloneFailed
            /\ Return(1)
       ELSE /\ pc' = "check2"
            /\ UNCHANGED <<ret, stderr, stack, reported>>
    /\ UNCHANGED <<prog, root, childPid, proc, retVal, exitStatus, waited,
                   stackClones, netVars, errno, failErrno, unshareCalls>>

\* PidTwo_Check2 without the test of child_pid_02
PidTwo_Check2_Unchecked ==
    /\ prog = "pid_two" /\ pc = "check2"
    /\ pc' = "wait1"
    /\ UNCHANGED <<prog, root, ret, stderr, stack, childPid, proc, retVal,
                   exitStatus, waited, stackClones, netVars, auxVars>>

PidTwo_Check2 ==
    /\ prog = "pid_two" /\ pc = "check2"
    /\ IF childPid[2] = CloneFailed
       THEN /\ ReportCloneFailed
            /\ Return(1)
       ELSE /\ pc' = "wait1"
            /\ UNCHANGED <<ret, stderr, stack, reported>>
    /\ UNCHANGED <<prog, root, childPid, proc, retVal, exitStatus, waited,
                   stackClones, netVars, errno, failErrno, unshareCalls>>

\* PidTwo_Wait1 without the wait for the first child
PidTwo_Wait1_Skipped ==
    /\ prog = "pid_two" /\ pc = "wait1"
    /\ pc' = "wait2"
    /\ UNCHANGED <<prog, root, ret, stderr, pidVars, netVars, auxVars>>

PidTwo_Wait1 ==
    /\ prog = "pid_two" /\ pc = "wait1"
    /\ waitpid(1)
    /\ pc' = "wait2"
    /\ UNCHANGED <<prog, root, ret, stderr, childPid, retVal, exitStatus, stack,
                   stackClones, netVars, auxVars>>

PidTwo_Wait2 ==
    /\ prog = "pid_two" /\ pc = "wait2"
    /\ waitpid(2)
    /\ Return(0)
    /\ UNCHANGED <<prog, root, stderr, childPid, retVal, exitStatus, stackClones, netVars, auxVars>>

\* ------------------------------------------------- the host's network
\* What the `ip` commands of the two provisioners act on: one named
\* namespace, the two ends of one veth pair, addresses and link states.
NoNet == [ns |-> FALSE, hostIf |-> "absent", nsIf |-> "absent",
          hostAddr |-> FALSE, hostUp |-> FALSE,
          nsAddr |-> FALSE, nsUp |-> FALSE, loUp |-> FALSE]

\* setup_veth_network moving the interface before creating the pair
VethSteps_MoveFirst ==
    <<"netns_add", "link_set_netns", "link_add",
      "addr_add_host", "link_up_host",
      "addr_add_ns", "link_up_ns", "lo_up",
      "show_host", "show_ns", "ping_ns_to_host", "ping_host_to_ns">>

\* the commands setup_veth_network issues, in source order
VethSteps == <<"netns_add", "link_add", "link_set_netns",
               "addr_add_host", "link_up_host",
               "addr_add_ns", "link_up_ns", "lo_up",
               "show_host", "show_ns", "ping_ns_to_host", "ping_host_to_ns">>

\* the commands setup_nat_network issues, in source order
NatSteps == <<"netns_add", "link_add", "link_set_netns",
              "addr_add_host", "link_up_host", "addr_add_ns">>

Steps(p) == IF p = "net_veth_example" THEN VethSteps ELSE NatSteps

\* commands that change the host's network configuration need privilege
Privileged(c) == c \notin {"show_host", "show_ns", "ping_host_to_ns"}

\* the state of the host's network in which the command can exit 0
StateAllows(c, k) ==
    CASE c = "netns_add"       -> ~k.ns
      [] c = "link_add"        -> k.hostIf = "absent" /\ k.nsIf # "host"
      [] c = "link_set_netns"  -> k.ns /\ k.nsIf = "host"
      [] c = "addr_add_host"   -> k.hostIf = "host" /\ ~k.hostAddr
      [] c = "link_up_host"    -> k.hostIf = "host"
      [] c = "addr_add_ns"     -> k.ns /\ k.nsIf = "ns" /\ ~k.nsAddr
      [] c = "link_up_ns"      -> k.ns /\ k.nsIf = "ns"
      [] c = "lo_up"           -> k.ns
      [] c = "show_host"       -> k.hostIf = "host"
      [] c = "show_ns"         -> k.ns /\ k.nsIf = "ns"
      [] c = "ping_ns_to_host" -> k.ns /\ k.hostAddr /\ k.hostUp /\ k.nsAddr /\ k.nsUp
      [] c = "ping_host_to_ns" -> k.hostAddr /\ k.hostUp /\ k.nsAddr /\ k.nsUp
      [] c = "netns_del"       -> k.ns
      [] c = "netns_list"      -> TRUE
      [] c = "netns_exec_show" -> k.ns

\* the state in which the command can exit 0
CanSucceed(c, k) ==
    /\ Privileged(c) => root
    /\ StateAllows(c, k)

\* what the command does to the host's network when it exits 0.  Deleting a
\* namespace destroys the interfaces living in it, and destroying one end of
\* a veth pair destroys its peer.
Effect(c, k) ==
    CASE c = "netns_add"      -> [k EXCEPT !.ns = TRUE]
      [] c = "link_add"       -> [k EXCEPT !.hostIf = "host", !.nsIf = "host"]
      [] c = "link_set_netns" -> [k EXCEPT !.nsIf = "ns"]
      [] c = "addr_add_host"  -> [k EXCEPT !.hostAddr = TRUE]
      [] c = "link_up_host"   -> [k EXCEPT !.hostUp = TRUE]
      [] c = "addr_add_ns"    -> [k EXCEPT !.nsAddr = TRUE]
      [] c = "link_up_ns"     -> [k EXCEPT !.nsUp = TRUE]
      [] c = "lo_up"          -> [k EXCEPT !.loUp = TRUE]
      [] c = "netns_del"      -> IF k.nsIf = "ns"
                                 THEN NoNet
                                 ELSE [k EXCEPT !.ns = FALSE, !.loUp = FALSE]
      [] OTHER                -> k

\* result.returncode == 0 for a command: a setup command may fail for reasons
\* outside the modelled state (NamespaceExists, InterfaceExists, MoveFailed,
\* ConfigurationFailed); deleting a namespace fails exactly when it is absent.
Outcomes(c, k) ==
    IF c = "netns_del" THEN {CanSucceed(c, k)}
    ELSE {ok \in BOOLEAN : ok => CanSucceed(c, k)}

\* run_cmd(cmd, description): runs the command, prints "Error: ..." to stderr
\* and returns False when it exits nonzero, returns True otherwise
run_cmd(c, ok) ==
    /\ ok \in Outcomes(c, kernel)
    /\ kernel' = IF ok THEN Effect(c, kernel) ELSE kernel
    /\ stderr' = IF ok THEN stderr ELSE Append(stderr, "Error")

\* ---------------------------------------------------- net_veth_example.py
\* if os.geteuid() != 0: print(...); sys.exit(1)
Veth_EuidCheck ==
    /\ prog = "net_veth_example" /\ pc = "start"
    /\ IF root
       THEN /\ pc' = "setup"
            /\ UNCHANGED <<ret, stderr>>
       ELSE /\ stderr' = Append(stderr, "must be run as root")
            /\ ret' = 1
            /\ pc' = "done"
    /\ UNCHANGED <<prog, root, pidVars, netVars, auxVars>>

\* setup_veth_network: the next run_cmd call; its return value is discarded
setup_veth_network ==
    /\ prog = "net_veth_example" /\ pc = "setup"
    /\ Len(results) < Len(VethSteps)
    /\ \E ok \in BOOLEAN :
         /\ run_cmd(VethSteps[Len(results) + 1], ok)
         /\ results' = Append(results, ok)
    /\ UNCHANGED <<prog, root, pc, ret, pidVars, nsBound, cleanupLog, ticks, auxVars>>

\* return namespace; main binds it and enters the idle loop
Veth_SetupReturn ==
    /\ prog = "net_veth_example" /\ pc = "setup"
    /\ Len(results) = Len(VethSteps)
    /\ nsBound' = TRUE
    /\ pc' = "idle"
    /\ UNCHANGED <<prog, root, ret, stderr, pidVars, kernel, results, cleanupLog, ticks, auxVars>>

\* while True: time.sleep(1)
Veth_Idle ==
    /\ prog = "net_veth_example" /\ pc = "idle"
    /\ ticks < MaxTicks
    /\ ticks' = ticks + 1
    /\ UNCHANGED <<prog, root, pc, ret, stderr, pidVars, kernel, results, nsBound, cleanupLog, auxVars>>

\* cleanup deleting a namespace of another name: the command fails
cleanup_WrongName ==
    /\ kernel' = kernel
    /\ stderr' = Append(stderr, "Error")
    /\ cleanupLog' = Append(cleanupLog, FALSE)

\* cleanup(namespace): one run_cmd deleting the namespace, result discarded
cleanup ==
    \E ok \in BOOLEAN :
       /\ run_cmd("netns_del", ok)
       /\ cleanupLog' = Append(cleanupLog, ok)

\* except KeyboardInterrupt: Ctrl+C arrives inside the try block.  Once
\* `namespace` is bound the handler runs cleanup and main returns None; while
\* setup_veth_network is still running the name is unbound, so the handler
\* raises UnboundLocalError and the interpreter exits 1 without cleanup.
Veth_KeyboardInterrupt ==
    /\ prog = "net_veth_example" /\ pc \in {"setup", "idle"}
    /\ IF nsBound
       THEN /\ cleanup
            /\ ret' = 0
       ELSE /\ stderr' = Append(stderr, "UnboundLocalError")
            /\ ret' = 1
            /\ UNCHANGED <<kernel, cleanupLog>>
    /\ pc' = "done"
    /\ UNCHANGED <<prog, root, pidVars, results, nsBound, ticks, auxVars>>

\* ------------------------------------------------- net_internet_access.py
\* setup_nat_network: the next run_cmd call; its return value is discarded
setup_nat_network ==
    /\ prog = "setup_nat_network" /\ pc = "setup"
    /\ Len(results) < Len(NatSteps)
    /\ \E ok \in BOOLEAN :
         /\ run_cmd(NatSteps[Len(results) + 1], ok)
         /\ results' = Append(results, ok)
    /\ UNCHANGED <<prog, root, pc, ret, pidVars, nsBound, cleanupLog, ticks, auxVars>>

\* the function body ends after its sixth command and returns None
Nat_SetupReturn ==
    /\ prog = "setup_nat_network" /\ pc = "setup"
    /\ Len(results) = Len(NatSteps)
    /\ pc' = "done"
    /\ ret' = 0
    /\ UNCHANGED <<prog, root, stderr, pidVars, netVars, auxVars>>

\* ---------------------------------------------------- net_namespace_basic.py
\* the commands create_and_inspect_netns issues, in source order
BasicSteps == <<"netns_add", "netns_list", "netns_exec_show", "netns_del">>

\* subprocess.run of a command here: privilege comes from sudo, which may
\* refuse, so the command can fail whatever the euid
SudoOutcomes(c, k) == {ok \in BOOLEAN : ok => StateAllows(c, k)}

\* sudo ip netns add test-ns; on failure print and return 1
Basic_Create ==
    /\ prog = "net_namespace_basic" /\ pc = "start"
    /\ \E ok \in SudoOutcomes("netns_add", kernel) :
         /\ results' = Append(results, ok)
         /\ IF ok
            THEN /\ kernel' = Effect("netns_add", kernel)
                 /\ pc' = "inspect"
                 /\ UNCHANGED <<ret, stderr>>
            ELSE /\ stderr' = Append(stderr, "Failed to create network namespace")
                 /\ ret' = 1
                 /\ pc' = "done"
                 /\ kernel' = kernel
    /\ UNCHANGED <<prog, root, pidVars, nsBound, cleanupLog, ticks, auxVars>>

\* list, exec ... ip addr show, del: return codes are not looked at
Basic_Inspect ==
    /\ prog = "net_namespace_basic" /\ pc = "inspect"
    /\ Len(results) < Len(BasicSteps)
    /\ LET c == BasicSteps[Len(results) + 1] IN
       \E ok \in SudoOutcomes(c, kernel) :
         /\ results' = Append(results, ok)
         /\ kernel' = IF ok THEN Effect(c, kernel) ELSE kernel
    /\ UNCHANGED <<prog, root, pc, ret, stderr, pidVars, nsBound, cleanupLog, ticks, auxVars>>

\* return 0 reached before the delete command
Basic_Return_Early ==
    /\ prog = "net_namespace_basic" /\ pc = "inspect"
    /\ Len(results) = Len(BasicSteps) - 1
    /\ ret' = 0
    /\ pc' = "done"
    /\ UNCHANGED <<prog, root, stderr, pidVars, netVars, auxVars>>

\* return 0
Basic_Return ==
    /\ prog = "net_namespace_basic" /\ pc = "inspect"
    /\ Len(results) = Len(BasicSteps)
    /\ ret' = 0
    /\ pc' = "done"
    /\ UNCHANGED <<prog, root, stderr, pidVars, netVars, auxVars>>

\* -------------------------------------------------- net_namespace_unshare.py
\* if os.geteuid() != 0: print(...); sys.exit(1)
Unshare_EuidCheck ==
    /\ prog = "net_namespace_unshare" /\ pc = "start"
    /\ IF root
       THEN /\ pc' = "main"
            /\ UNCHANGED <<ret, stderr>>
       ELSE /\ stderr' = Append(stderr, "must be run as root")
            /\ ret' = 1
            /\ pc' = "done"
    /\ UNCHANGED <<prog, root, pidVars, netVars, auxVars>>

\* outcomes of an unshare call: it needs privilege, and may fail with it
UnshareOutcomes == IF root THEN {"ok", "EPERM", "ENOMEM"} ELSE {"EPERM"}

\* main up to the try block: os.unshare(os.CLONE_NEWNET); PermissionError is
\* caught and turned into return 1, any other OSError ends the run uncaught
Unshare_Main ==
    /\ prog = "net_namespace_unshare" /\ pc = "main"
    /\ unshareCalls' = unshareCalls + 1
    /\ \E o \in UnshareOutcomes :
         CASE o = "ok"    -> /\ pc' = "inspect"
                             /\ UNCHANGED <<ret, stderr>>
           [] o = "EPERM" -> /\ stderr' = Append(stderr, "requires root privileges")
                             /\ ret' = 1
                             /\ pc' = "done"
           [] OTHER       -> /\ stderr' = Append(stderr, "OSError")
                             /\ ret' = 1
                             /\ pc' = "done"
    /\ UNCHANGED <<prog, root, pidVars, netVars, errno, failErrno, reported>>

\* readlink, ip addr show, return 0
Unshare_Inspect ==
    /\ prog = "net_namespace_unshare" /\ pc = "inspect"
    /\ ret' = 0
    /\ pc' = "done"
    /\ UNCHANGED <<prog, root, stderr, pidVars, netVars, auxVars>>

\* ------------------------------------------------- archive/src/pid_unshare.py
\* result = libc.unshare(os.CLONE_NEWPID); if result != 0: report, sys.exit(1)
PidUnshare_Unshare ==
    /\ prog = "pid_unshare" /\ pc = "start"
    /\ unshareCalls' = unshareCalls + 1
    /\ \E o \in UnshareOutcomes :
         IF o = "ok"
         THEN /\ pc' = "fork"
              /\ UNCHANGED <<ret, stderr, errno>>
         ELSE /\ errno' = o
              /\ stderr' = Append(stderr, "unshare failed")
              /\ ret' = 1
              /\ pc' = "done"
    /\ UNCHANGED <<prog, root, pidVars, netVars, failErrno, reported>>

\* pid = os.fork() in the parent: the child exists and runs its branch.  (A
\* fork the kernel refuses raises OSError, which no code here tests for.)
fork ==
    /\ proc' = [proc EXCEPT ![1] = "forked"]
    /\ pc' = "wait"

PidUnshare_Fork ==
    /\ prog = "pid_unshare" /\ pc = "fork"
    /\ fork
    /\ UNCHANGED <<prog, root, ret, stderr, childPid, retVal, exitStatus, waited, stack,
                   stackClones, netVars, auxVars>>

\* the child branch: two prints, sys.exit(0)
PidUnshare_ChildExit ==
    /\ prog = "pid_unshare" /\ proc[1] = "forked"
    /\ proc' = [proc EXCEPT ![1] = "zombie"]
    /\ exitStatus' = [exitStatus EXCEPT ![1] = 0]
    /\ UNCHANGED <<prog, root, pc, ret, stderr, childPid, retVal, waited, stack,
                   stackClones, netVars, auxVars>>

\* the parent branch: os.waitpid(pid, 0), then the script ends
PidUnshare_Wait ==
    /\ prog = "pid_unshare" /\ pc = "wait"
    /\ waitpid(1)
    /\ ret' = 0
    /\ pc' = "done"
    /\ UNCHANGED <<prog, root, stderr, childPid, retVal, exitStatus, stack,
                   stackClones, netVars, auxVars>>

\* ------------------------- archive/src/pid_namespace.py: double_fork_demo
\* print(f"First child PID: ..."): the caller is the first child (steward)
DoubleFork_Entry ==
    /\ prog = "double_fork_demo" /\ pc = "start"
    /\ pc' = "fork"
    /\ UNCHANGED <<prog, root, ret, stderr, pidVars, netVars, auxVars>>

\* pid = os.fork(): the second child (init)
DoubleFork_Fork ==
    /\ prog = "double_fork_demo" /\ pc = "fork"
    /\ fork
    /\ UNCHANGED <<prog, root, ret, stderr, childPid, retVal, exitStatus, waited, stack,
                   stackClones, netVars, auxVars>>

\* second child: print, time.sleep(100), os._exit(0)
DoubleFork_InitExit ==
    /\ prog = "double_fork_demo" /\ proc[1] = "forked"
    /\ proc' = [proc EXCEPT ![1] = "zombie"]
    /\ exitStatus' = [exitStatus EXCEPT ![1] = 0]
    /\ UNCHANGED <<prog, root, pc, ret, stderr, childPid, retVal, waited, stack,
                   stackClones, netVars, auxVars>>

\* the first child going on without blocking on the second
DoubleFork_Wait_NoBlock ==
    /\ prog = "double_fork_demo" /\ pc = "wait"
    /\ ret' = 0
    /\ pc' = "done"
    /\ UNCHANGED <<prog, root, stderr, pidVars, netVars, auxVars>>

\* first child: os.waitpid(pid, 0), then the function is over
DoubleFork_Wait ==
    /\ prog = "double_fork_demo" /\ pc = "wait"
    /\ waitpid(1)
    /\ ret' = 0
    /\ pc' = "done"
    /\ UNCHANGED <<prog, root, stderr, childPid, retVal, exitStatus, stack,
                   stackClones, netVars, auxVars>>

\* ------------------------------------------------------------------ runs
Init ==
    /\ prog \in Progs
    /\ root \in BOOLEAN
    /\ pc = IF prog = "setup_nat_network" THEN "setup" ELSE "start"
    /\ ret = Running
    /\ stderr = <<>>
    /\ childPid = [i \in Slots |-> Unset]
    /\ proc = [i \in Slots |-> "none"]
    /\ retVal = [i \in Slots |-> 0]
    /\ exitStatus = [i \in Slots |-> 0]
    /\ waited = [i \in Slots |-> 0]
    /\ stack = [i \in Slots |-> "unalloc"]
    /\ stackClones = [i \in Slots |-> 0]
    /\ kernel = NoNet
    /\ results = <<>>
    /\ nsBound = FALSE
    /\ cleanupLog = <<>>
    /\ ticks = 0
    /\ errno = "none"
    /\ failErrno = [i \in Slots |-> "none"]
    /\ reported = <<>>
    /\ unshareCalls = 0

Next ==
    \/ PidNs_Alloc \/ PidNs_Clone \/ PidNs_Check \/ PidNs_Wait
    \/ PidTwo_Alloc \/ PidTwo_Clone1 \/ PidTwo_Clone2
    \/ PidTwo_Check1 \/ PidTwo_Check2 \/ PidTwo_Wait1 \/ PidTwo_Wait2
    \/ \E i \in Slots : child_fn(i)
    \/ \E i \in Slots : CloneFrameExit(i)
    \/ \E i \in Slots : ImageExit(i)
    \/ \E i \in Slots : HostInitReaps(i)
    \/ Veth_EuidCheck \/ setup_veth_network \/ Veth_SetupReturn \/ Veth_Idle
    \/ Veth_KeyboardInterrupt
    \/ setup_nat_network \/ Nat_SetupReturn
    \/ Basic_Create \/ Basic_Inspect \/ Basic_Return
    \/ Unshare_EuidCheck \/ Unshare_Main \/ Unshare_Inspect
    \/ PidUnshare_Unshare \/ PidUnshare_Fork \/ PidUnshare_ChildExit \/ PidUnshare_Wait
    \/ DoubleFork_Entry \/ DoubleFork_Fork \/ DoubleFork_InitExit \/ DoubleFork_Wait

Spec == Init /\ [][Next]_vars

\* The controlling process of a launcher is a running process: the scheduler
\* lets it take its next step whenever that step stays possible.  A forked
\* child runs straight to its exit call.  The exec'ed programs get no such
\* guarantee.
Controller ==
    \/ PidNs_Alloc \/ PidNs_Clone \/ PidNs_Check \/ PidNs_Wait
    \/ PidTwo_Alloc \/ PidTwo_Clone1 \/ PidTwo_Clone2
    \/ PidTwo_Check1 \/ PidTwo_Check2 \/ PidTwo_Wait1 \/ PidTwo_Wait2
    \/ PidUnshare_Unshare \/ PidUnshare_Fork \/ PidUnshare_Wait
    \/ DoubleFork_Entry \/ DoubleFork_Fork \/ DoubleFork_Wait

ForkedChild == PidUnshare_ChildExit \/ DoubleFork_InitExit

SpecFair == Spec /\ WF_vars(Controller) /\ WF_vars(ForkedChild)

\* ------------------------------------------- teardown called in succession
\* The teardown scenario of the test plan: setup_veth_network runs (fully, or
\* is abandoned after any of its commands), then cleanup("blue") is called
\* MaxCleanups times in a row.
MaxCleanups == 2

InitTeardown ==
    /\ Init
    /\ prog = "net_veth_example"
    /\ root = TRUE

\* the scenario calls setup_veth_network() directly, as root
Teardown_CallSetup ==
    /\ pc = "start"
    /\ pc' = "setup"
    /\ UNCHANGED <<prog, root, ret, stderr, pidVars, netVars, auxVars>>

\* cleanup("blue"), once setup has run at least one command
Teardown_Cleanup ==
    /\ prog = "net_veth_example"
    /\ pc \in {"setup", "idle", "torn"}
    /\ results # <<>>
    /\ Len(cleanupLog) < MaxCleanups
    /\ cleanup
    /\ pc' = "torn"
    /\ UNCHANGED <<prog, root, ret, pidVars, results, nsBound, ticks, auxVars>>

NextTeardown ==
    \/ Teardown_CallSetup
    \/ setup_veth_network
    \/ Veth_SetupReturn
    \/ Teardown_Cleanup

SpecTeardown == InitTeardown /\ [][NextTeardown]_vars

\* =================================================================== claims
Spawned(i) == childPid[i] > 0
Failed(j) == j \in DOMAIN results /\ ~results[j]
Configured == Len(results) >= 8 /\ \A j \in 1..8 : results[j]

\* C1: every clone call that returned a valid child PID is followed by exactly
\* one waitpid on that PID before main returns, on every path.
C1_EachChildWaitedOnce ==
    \A i \in Slots :
        /\ waited[i] <= 1
        /\ (prog \in PidProgs /\ pc = "done" /\ Spawned(i)) => waited[i] = 1

\* C2: while a spawned child has not been collected by waitpid, its stack
\* buffer has not been released and was handed to no other clone call.
C2_StackOwnedUntilReaped ==
    \A i \in Slots :
        (Spawned(i) /\ waited[i] = 0) => (stack[i] = "owned" /\ stackClones[i] = 1)

\* C3: child_fn never returns into the clone frame when the exec fails.
C3_ChildNeverReturns ==
    \A i \in Slots : proc[i] # "returned"

\* C4: a clone call that returned -1 produced no child, is never waited for,
\* leaves no process of its own behind, and makes main report the error and
\* return a nonzero code.
C4_FailedCloneOwesNothing ==
    \A i \in Slots :
        childPid[i] = CloneFailed =>
            /\ proc[i] = "none"
            /\ waited[i] = 0
            /\ pc \notin {"wait1", "wait2"}
            /\ pc = "done" => (ret = 1 /\ stderr = <<"clone failed">>)

C4_Witness ==
    /\ prog = "pid_two" /\ pc = "done"
    /\ childPid[1] = Pid(1) /\ childPid[2] = CloneFailed

\* C5: setup is fail-fast: a step whose command failed is the last step
\* executed, and the run then ends in teardown.
C5_FailFast ==
    prog \in NetProgs =>
        \A j \in DOMAIN results :
            ~results[j] => /\ j = Len(results)
                           /\ pc = "done" => cleanupLog # <<>>

\* C6: a failed provisioning step leads by itself to teardown and to the
\* error being surfaced: by the time main would sit in its idle loop waiting
\* for an external event, cleanup has been called and the run has ended.
C6_FailureTriggersTeardown ==
    (prog = "net_veth_example" /\ \E j \in DOMAIN results : ~results[j]) =>
        (pc = "idle" => (cleanupLog # <<>> /\ ret # Running))

\* C7: if step 3 (move into the namespace) failed, then once cleanup has run
\* there is no namespace and no host-side interface host_veth.
C7_NoResidueAfterMoveFailure ==
    (prog = "net_veth_example" /\ Failed(3) /\ cleanupLog # <<>>) =>
        (~kernel.ns /\ kernel.hostIf = "absent")

\* C8: cleanup called twice in succession: after each call there is no
\* namespace and no veth, and the second call reports no error.
C8_TeardownIdempotent ==
    /\ cleanupLog # <<>> =>
          (~kernel.ns /\ kernel.hostIf = "absent" /\ kernel.nsIf = "absent")
    /\ Len(cleanupLog) >= 2 => cleanupLog[2]

\* C9: after a fully successful setup_veth_network one cleanup call leaves the
\* host as it was before setup: no namespace, neither veth end, no addresses.
C9_CleanupRestoresPreSetup ==
    (prog = "net_veth_example" /\ Configured /\ cleanupLog # <<>>) =>
        kernel = NoNet

C9_Witness ==
    /\ prog = "net_veth_example" /\ Configured
    /\ Len(cleanupLog) = 1 /\ cleanupLog[1] /\ pc = "done"

\* C10: no command that assigns an address to, or brings up, the
\* namespace-side veth end is executed unless step 3 succeeded before.
C10_NsEndConfiguredOnlyAfterMove ==
    prog \in NetProgs =>
        \A j \in DOMAIN results :
            Steps(prog)[j] \in {"addr_add_ns", "link_up_ns"} => results[3]

\* C11: namespace creation precedes every configuration of an interface
\* inside the namespace, and veth creation precedes the move: each such
\* command comes after the creating command, and succeeds only if that one did.
NsConfigCmds == {"addr_add_ns", "link_up_ns", "lo_up"}

After(p, j, c) ==
    \E i \in 1..(j - 1) : Steps(p)[i] = c /\ (results[j] => results[i])

C11_CreationPrecedesUse ==
    prog \in NetProgs =>
        \A j \in DOMAIN results :
            /\ Steps(prog)[j] \in NsConfigCmds => After(prog, j, "netns_add")
            /\ Steps(prog)[j] = "link_set_netns" => After(prog, j, "link_add")

C11_Witness ==
    /\ prog = "net_veth_example" /\ Len(results) >= 8
    /\ results[3] /\ results[6] /\ results[8]

\* C12: without root privilege no clone, no unshare and no network command
\* is attempted, and the run ends with a nonzero exit code.
C12_PrivilegeCheckedFirst ==
    (prog \in PidProgs \cup {"net_veth_example", "net_namespace_unshare"} /\ ~root) =>
        /\ \A i \in Slots : stackClones[i] = 0
        /\ unshareCalls = 0
        /\ results = <<>>
        /\ pc = "done" => ret # 0

\* C13: the exit code is 0 only when no setup step failed: no failed command
\* among the eight setup steps of setup_veth_network, no failed creation in
\* create_and_inspect_netns, no failed clone in the launchers.
C13_ZeroOnlyOnSuccess ==
    ret = 0 =>
        /\ prog = "net_veth_example" =>
              \A j \in DOMAIN results : j <= 8 => results[j]
        /\ prog = "net_namespace_basic" => results[1]
        /\ prog \in PidProgs => \A i \in Slots : childPid[i] # CloneFailed

\* C14: a Ctrl+C delivered during setup_veth_network or during the idle loop
\* makes main call cleanup, and the run ends with the namespace deleted.
C14_InterruptReachesTeardown ==
    (prog = "net_veth_example" /\ root /\ pc = "done") =>
        (cleanupLog # <<>> /\ ~kernel.ns)

\* C15: the double fork moves only along UNSHARED -> FORKED_STEWARD ->
\* FORKED_INIT -> INIT_EXITED -> STEWARD_EXITED; the steward (and the waiting
\* parent of pid_unshare.py) never ends before the process it forked has
\* exited, and once that process has exited it eventually ends.
Phase ==
    CASE pc = "start" -> "UNSHARED"
      [] pc = "fork"  -> "FORKED_STEWARD"
      [] pc = "wait" /\ proc[1] = "forked" -> "FORKED_INIT"
      [] pc = "wait" /\ proc[1] # "forked" -> "INIT_EXITED"
      [] OTHER -> "STEWARD_EXITED"

PhaseNext == {<<"UNSHARED", "FORKED_STEWARD">>, <<"FORKED_STEWARD", "FORKED_INIT">>,
              <<"FORKED_INIT", "INIT_EXITED">>, <<"INIT_EXITED", "STEWARD_EXITED">>}

BothSpawned == prog = "pid_two" /\ \A i \in Slots : Spawned(i)

C16_BothChildrenReaped ==
    /\ [](prog = "pid_two" /\ ret = 0 =>
            \A i \in Slots : proc[i] = "reaped" /\ waited[i] = 1)
    /\ (BothSpawned /\ \A i \in Slots : proc[i] \in {"zombie", "reaped"})
          ~> (ret = 0 /\ \A i \in Slots : proc[i] = "reaped")

C16_Witness ==
    /\ prog = "pid_two" /\ ret = 0 /\ waited = [i \in Slots |-> 1]

\* C17: once a clone call has returned -1 no further clone call is issued
\* before that failure is reported, and the errno reported is the errno of
\* the call that failed.
FirstFailed == IF childPid[1] = CloneFailed THEN 1 ELSE 2

C17_FailureSurfacedAtOnce ==
    prog \in PidProgs =>
        /\ (childPid[1] = CloneFailed /\ reported = <<>>) => stackClones[2] = 0
        /\ reported # <<>> => reported[1] = failErrno[FirstFailed]

\* C18: when every command succeeded, the provisioner ends with the host-side
\* veth addressed and up, the namespace-side veth addressed and up inside the
\* namespace, and the namespace's loopback up.
C18_FullyConfigured ==
    (/\ prog \in NetProgs
     /\ Len(results) = Len(Steps(prog))
     /\ \A j \in DOMAIN results : results[j]
     /\ cleanupLog = <<>>) =>
        /\ kernel.hostIf = "host" /\ kernel.hostAddr /\ kernel.hostUp
        /\ kernel.nsIf = "ns" /\ kernel.nsAddr /\ kernel.nsUp
        /\ kernel.loUp

\* C19: create_and_inspect_netns returns 0 only after the delete command was
\* issued, which happens on every path where the creation succeeded; when the
\* creation fails it returns 1 with no list, exec or delete command issued.
C19_DeleteAlwaysIssued ==
    (prog = "net_namespace_basic" /\ pc = "done") =>
        IF results[1]
        THEN /\ ret = 0
             /\ \E j \in DOMAIN results : BasicSteps[j] = "netns_del"
        ELSE ret = 1 /\ Len(results) = 1

C19_Witness ==
    /\ prog = "net_namespace_basic" /\ pc = "done" /\ ret = 0
    /\ Len(results) = Len(BasicSteps)
====
